---- MODULE Spec2Model ----
(***************************************************************************)
(* Basketball Monster server (src/server.js): the alert fan-out and the    *)
(* notification-history pipeline.  Every request handler is a process      *)
(* whose steps are the handler's awaits; the tables of the Azure SQL       *)
(* database and the push gateway are the shared state.                     *)
(***************************************************************************)
EXTENDS Integers, Sequences, FiniteSets, TLC

VARIABLES
    devices,        \* table devices: set of rows, code is the PRIMARY KEY
    user_alerts,    \* table user_alerts: sequence of rows in IDENTITY order
    notifications,  \* table notifications: sequence of rows, alert_id UNIQUE
    gateway,        \* chunks accepted by expo.sendPushNotificationsAsync, in order
    valid_codes,    \* table valid_codes: the set of codes (PRIMARY KEY)
    bc,             \* POST /api/alert handlers: slot -> locals
    up,             \* PUT /api/alerts/:alert_id handlers: slot -> locals
    dl,             \* DELETE /api/alerts/:alert_id handlers: slot -> locals
    rg              \* POST /api/register handlers: slot -> locals

vars == <<devices, user_alerts, notifications, gateway, valid_codes, bc, up, dl, rg>>

(***************************************************************************)
(* Bounds of the model.                                                    *)
(***************************************************************************)
\* longest recipient list of a broadcast request
MaxRecipients == 3

\* messages per chunk of expo.chunkPushNotifications, scaled down
ChunkSize == 1

\* request handlers that may run concurrently, by endpoint
AlertSlots == {"b1", "b2"}
UpdateSlots == {"u1"}
DeleteSlots == {"d1", "d2"}
RegisterSlots == {"r1", "r2"}

(***************************************************************************)
(* JavaScript strings.  "" stands for every falsy value of a JSON string   *)
(* field (empty or null); a field that is missing from the body is missing *)
(* from the record.                                                        *)
(***************************************************************************)
LowerChars == "abcdefghijklmnopqrstuvwxyz"
UpperChars == "ABCDEFGHIJKLMNOPQRSTUVWXYZ"

CharAt(s, i) == SubSeq(s, i, i)

\* the letters' upper and lower case, as tables
UpperOf ==
    [c \in {CharAt(LowerChars, k) : k \in 1..26} |->
        CharAt(UpperChars, CHOOSE k \in 1..26 : CharAt(LowerChars, k) = c)]

LowerOf ==
    [c \in {CharAt(UpperChars, k) : k \in 1..26} |->
        CharAt(LowerChars, CHOOSE k \in 1..26 : CharAt(UpperChars, k) = c)]

UpChar(c) == IF c \in DOMAIN UpperOf THEN UpperOf[c] ELSE c

LowChar(c) == IF c \in DOMAIN LowerOf THEN LowerOf[c] ELSE c

RECURSIVE MapChars(_, _, _)
MapChars(s, i, upper) ==
    IF i > Len(s) THEN ""
    ELSE (IF upper THEN UpChar(CharAt(s, i)) ELSE LowChar(CharAt(s, i)))
         \o MapChars(s, i + 1, upper)

toUpperCase(s) == MapChars(s, 1, TRUE)
toLowerCase(s) == MapChars(s, 1, FALSE)

RECURSIVE TrimLeft(_)
TrimLeft(s) ==
    IF Len(s) > 0 /\ CharAt(s, 1) = " " THEN TrimLeft(SubSeq(s, 2, Len(s))) ELSE s

RECURSIVE TrimRight(_)
TrimRight(s) ==
    IF Len(s) > 0 /\ CharAt(s, Len(s)) = " "
    THEN TrimRight(SubSeq(s, 1, Len(s) - 1)) ELSE s

trim(s) == TrimRight(TrimLeft(s))

\* body.f of a parsed JSON body: "" when the field is missing
Field(body, f) == IF f \in DOMAIN body THEN body[f] ELSE ""

(***************************************************************************)
(* Lookup tables.                                                          *)
(***************************************************************************)
STATUS_COLORS ==
    [s \in {"Questionable", "Injured", "Starting", "Note", "Doubtful", "Out",
            "In Locker Room", "Playing", "Off Injury Report"} |->
        CASE s = "Questionable" -> "#6699FFFF"
          [] s = "Injured" -> "#EF4444FF"
          [] s = "Starting" -> "#10B981FF"
          [] s = "Note" -> "#6B7280FF"
          [] s = "Doubtful" -> "#F97316FF"
          [] s = "Out" -> "#DC2626FF"
          [] s = "In Locker Room" -> "#F59E0BFF"
          [] s = "Playing" -> "#059669FF"
          [] s = "Off Injury Report" -> "#3B82F6FF"]

\* status_color || STATUS_COLORS[status] || '#6B7280FF'
finalStatusColor(status_color, status) ==
    IF status_color # "" THEN status_color
    ELSE IF status \in DOMAIN STATUS_COLORS THEN STATUS_COLORS[status]
    ELSE "#6B7280FF"

\* emojis[level?.toLowerCase()] || fallback, as the title's template literal
\* prints it. emojis is an object literal, so the lookup also finds what it
\* inherits from Object.prototype: the key "constructor" yields the function
\* Object and the key "__proto__" yields Object.prototype, both truthy.
getAlertEmoji(level) ==
    LET l == toLowerCase(level) IN
    CASE l = "low" -> "(i)"
      [] l = "medium" -> "(!)"
      [] l = "high" -> "(fire)"
      [] l = "monster" -> "(siren)"
      [] l = "constructor" -> "function Object() { [native code] }"
      [] l = "__proto__" -> "[object Object]"
      [] OTHER -> "(megaphone)"

startsWith(s, p) == Len(s) >= Len(p) /\ SubSeq(s, 1, Len(p)) = p

isValidPushToken(token) == token # "" /\ startsWith(token, "ExponentPushToken[")

\* uuidv4(): a value no other call returns; every handler calls it at most
\* once, so the calling handler's slot names the value
uuidv4(slot) == slot

(***************************************************************************)
(* Request bodies the clients send.                                        *)
(***************************************************************************)
Without(body, f) == [k \in DOMAIN body \ {f} |-> body[k]]

Recipients ==
    { [user_id |-> "ABC123", teams_affected |-> 2],
      [user_id |-> "abc123"],
      [user_id |-> "XYZ789", teams_affected |-> 0] }

UserLists == UNION { [1..n -> Recipients] : n \in 1..MaxRecipients }

AlertBody(users) ==
    [title |-> "Player Out", status |-> "Out", alert_level |-> "monster",
     details |-> "knee injury", users |-> users]

OneUser == << [user_id |-> "ABC123", teams_affected |-> 2] >>

InvalidAlertBodies ==
    { [AlertBody(OneUser) EXCEPT !.title = ""],
      Without(AlertBody(OneUser), "title"),
      [AlertBody(OneUser) EXCEPT !.status = ""],
      Without(AlertBody(OneUser), "status"),
      [AlertBody(OneUser) EXCEPT !.alert_level = ""],
      Without(AlertBody(OneUser), "alert_level"),
      Without(AlertBody(OneUser), "users"),
      AlertBody(<< >>) }

AlertBodies == { AlertBody(us) : us \in UserLists } \cup InvalidAlertBodies

\* bodies that vary what the push message is built from: the level, the
\* details (none, empty, short, longer than 100 characters) and the
\* recipient's teams_affected (none, 0, positive)
MessageLevels ==
    {"low", "Medium", "HIGH", "monster", "MONSTER", "other", "constructor"}

Hundred ==
    "0123456789012345678901234567890123456789012345678901234567890123456789012345678901234567890123456789"

Details101 == Hundred \o "X"

MessageDetails == {"", "knee injury", Hundred, Details101}

MessageRecipients ==
    { << [user_id |-> "ABC123", teams_affected |-> 2] >>,
      << [user_id |-> "ABC123", teams_affected |-> 0] >>,
      << [user_id |-> "abc123"] >>,
      << [user_id |-> "abc123"], [user_id |-> "ABC123", teams_affected |-> 1] >> }

MessageBodies ==
    { [title |-> "Player Out", status |-> "Out", alert_level |-> l,
       details |-> d, users |-> us] :
         l \in MessageLevels, d \in MessageDetails, us \in MessageRecipients }
    \cup
    { [title |-> "Player Out", status |-> "Out", alert_level |-> l,
       users |-> us] : l \in MessageLevels, us \in MessageRecipients }

\* ids a client may name in PUT/DELETE /api/alerts/:alert_id
AlertIds == AlertSlots \cup {"no-such-alert"}

UpdateBodies ==
    { [title |-> "Player Back", status |-> "Playing", alert_level |-> "low",
       details |-> ""],
      [title |-> "Player Doubtful", status |-> "Doubtful",
       status_color |-> "#000000FF", alert_level |-> "high",
       details |-> "ankle"] }

RegisterBodies ==
    { [code |-> " abc123 ", pushToken |-> "ExponentPushToken[xyz]"],
      [code |-> "ABC123", pushToken |-> "simulator_token_1"],
      [code |-> "xyz789", pushToken |-> "ExponentPushToken[abc]"],
      [code |-> "BAD000", pushToken |-> "ExponentPushToken[xyz]"],
      [code |-> "ABC123", pushToken |-> "bogus"],
      [pushToken |-> "ExponentPushToken[xyz]"],
      [code |-> "ABC123"] }

(***************************************************************************)
(* POST /api/alert: the fan-out engine.                                    *)
(***************************************************************************)
NoDevice == [code |-> "", pushToken |-> "", registrationId |-> ""]
NoResponse == [status |-> 0]

IdleAlert ==
    [pc |-> "idle", req |-> << >>, finalStatusColor |-> "", alert_id |-> "",
     successful |-> 0, failed |-> 0, messages |-> << >>, i |-> 0,
     device |-> NoDevice, chunks |-> << >>, k |-> 0, outcomes |-> << >>,
     res |-> NoResponse]

\* MissingRequiredFields without the test of status
MissingRequiredFieldsButStatus(body) ==
    \/ Field(body, "title") = ""
    \/ Field(body, "alert_level") = ""
    \/ "users" \notin DOMAIN body
    \/ Len(body.users) = 0

\* !title || !status || !alert_level || !users || users.length === 0
MissingRequiredFields(body) ==
    \/ Field(body, "title") = ""
    \/ Field(body, "status") = ""
    \/ Field(body, "alert_level") = ""
    \/ "users" \notin DOMAIN body
    \/ Len(body.users) = 0

\* user.teams_affected || 0
TeamsAffected(user) ==
    IF "teams_affected" \in DOMAIN user THEN user.teams_affected ELSE 0

Min(a, b) == IF a < b THEN a ELSE b

\* s.substring(from, to)
substring(s, from, to) == SubSeq(s, from + 1, Min(to, Len(s)))

notificationBody(status, user, details) ==
    status
    \o (IF TeamsAffected(user) > 0
        THEN " [" \o ToString(TeamsAffected(user)) \o " teams]" ELSE "")
    \o (IF details # "" THEN " - " \o substring(details, 0, 100) ELSE "")

notificationTitle(alert_level, title) ==
    getAlertEmoji(alert_level) \o " "
    \o (IF toLowerCase(alert_level) = "monster" THEN "MONSTER ALERT - " ELSE "")
    \o title

\* UserAlertRow with user_code = device.code
UserAlertRowDeviceCode(s, user) ==
    [alert_id |-> s.alert_id, user_code |-> s.device.code,
     title |-> Field(s.req, "title"), status |-> Field(s.req, "status"),
     status_color |-> s.finalStatusColor,
     alert_level |-> Field(s.req, "alert_level"),
     details |-> Field(s.req, "details"),
     teams_affected |-> TeamsAffected(user), is_deleted |-> 0]

\* the row of INSERT INTO user_alerts; sent_at and updated_at are left out,
\* the place in the sequence is the order of sent_at
UserAlertRow(s, user) ==
    [alert_id |-> s.alert_id, user_code |-> user.user_id,
     title |-> Field(s.req, "title"), status |-> Field(s.req, "status"),
     status_color |-> s.finalStatusColor,
     alert_level |-> Field(s.req, "alert_level"),
     details |-> Field(s.req, "details"),
     teams_affected |-> TeamsAffected(user), is_deleted |-> 0]

PushMessage(s, user) ==
    [to |-> s.device.pushToken,
     title |-> notificationTitle(Field(s.req, "alert_level"),
                                 Field(s.req, "title")),
     body |-> notificationBody(Field(s.req, "status"), user,
                               Field(s.req, "details")),
     alert_id |-> s.alert_id]

\* NotificationRow with total_recipients = users.length
NotificationRowTotal(s) ==
    [alert_id |-> s.alert_id,
     title |-> Field(s.req, "title"), status |-> Field(s.req, "status"),
     status_color |-> s.finalStatusColor,
     alert_level |-> Field(s.req, "alert_level"),
     details |-> Field(s.req, "details"),
     total_recipients |-> Len(s.req.users), is_deleted |-> 0]

\* the row of INSERT INTO notifications
NotificationRow(s) ==
    [alert_id |-> s.alert_id,
     title |-> Field(s.req, "title"), status |-> Field(s.req, "status"),
     status_color |-> s.finalStatusColor,
     alert_level |-> Field(s.req, "alert_level"),
     details |-> Field(s.req, "details"),
     total_recipients |-> s.successful, is_deleted |-> 0]

\* expo.chunkPushNotifications: consecutive chunks of at most ChunkSize
RECURSIVE chunkPushNotifications(_)
chunkPushNotifications(msgs) ==
    IF Len(msgs) = 0 THEN << >>
    ELSE << SubSeq(msgs, 1, Min(ChunkSize, Len(msgs))) >>
         \o chunkPushNotifications(SubSeq(msgs, ChunkSize + 1, Len(msgs)))

\* CountFailed with a catch block that does not count
CountFailedNotInCatch(s, why) ==
    [s EXCEPT !.failed = IF why = "error" THEN @ ELSE @ + 1,
              !.outcomes = Append(@, why), !.device = NoDevice]

\* CountFailed for a loop that builds the message before the INSERT: when the
\* INSERT throws, the message is already in the batch
CountFailedKeepsMessage(s, why) ==
    IF why = "error" /\ s.device # NoDevice
    THEN [s EXCEPT !.messages = Append(@, PushMessage(s, s.req.users[s.i])),
                   !.failed = @ + 1, !.outcomes = Append(@, why),
                   !.device = NoDevice]
    ELSE [s EXCEPT !.failed = @ + 1, !.outcomes = Append(@, why),
                   !.device = NoDevice]

\* the recipient was not registered, or its lookup or insert threw
CountFailed(s, why) ==
    [s EXCEPT !.failed = @ + 1, !.outcomes = Append(@, why),
              !.device = NoDevice]

\* CountSuccessful that drops a recipient whose device already has a message
CountSuccessfulDedup(s, user) ==
    IF \E m \in 1..Len(s.messages) : s.messages[m].to = s.device.pushToken
    THEN [s EXCEPT !.outcomes = Append(@, "ok"), !.device = NoDevice]
    ELSE [s EXCEPT !.messages = Append(@, PushMessage(s, user)),
                   !.successful = @ + 1, !.outcomes = Append(@, "ok"),
                   !.device = NoDevice]

\* the recipient's row is written: build and keep its message, count it
CountSuccessful(s, user) ==
    [s EXCEPT !.messages = Append(@, PushMessage(s, user)),
              !.successful = @ + 1, !.outcomes = Append(@, "ok"),
              !.device = NoDevice]

\* NextRecipient with a break in place of the continue of line 366
NextRecipientBreak(s) ==
    IF s.i < Len(s.req.users) /\ s.outcomes[s.i] # "unregistered"
    THEN [s EXCEPT !.i = @ + 1, !.pc = "lookup"]
    ELSE IF Len(s.messages) > 0
         THEN [s EXCEPT !.pc = "dispatch",
                        !.chunks = chunkPushNotifications(s.messages), !.k = 1]
         ELSE [s EXCEPT !.pc = "history"]

\* the end of one iteration of for (const user of users), up to the next await
NextRecipient(s) ==
    IF s.i < Len(s.req.users) THEN [s EXCEPT !.i = @ + 1, !.pc = "lookup"]
    ELSE IF Len(s.messages) > 0
         THEN [s EXCEPT !.pc = "dispatch",
                        !.chunks = chunkPushNotifications(s.messages), !.k = 1]
         ELSE [s EXCEPT !.pc = "history"]

\* validation, then everything up to the first SELECT FROM devices
AlertStart(b, Bodies) ==
    /\ bc[b].pc = "idle"
    /\ \E body \in Bodies :
         bc' = [bc EXCEPT ![b] =
                  IF MissingRequiredFields(body)
                  THEN [@ EXCEPT !.pc = "done", !.req = body,
                                 !.res = [status |-> 400, success |-> FALSE,
                                          error |-> "Missing required fields"]]
                  ELSE [@ EXCEPT !.pc = "lookup", !.req = body, !.i = 1,
                                 !.finalStatusColor =
                                     finalStatusColor(Field(body, "status_color"),
                                                      Field(body, "status")),
                                 !.alert_id = uuidv4(b)]]
    /\ UNCHANGED <<devices, user_alerts, notifications, gateway, valid_codes,
                   up, dl, rg>>

\* SELECT * FROM devices WHERE code = toUpperCase(user_id) returns or throws
AlertLookup(b, Outcomes) ==
    /\ bc[b].pc = "lookup"
    /\ LET s == bc[b]
           user == s.req.users[s.i]
           found == {d \in devices : d.code = toUpperCase(user.user_id)}
       IN \E ok \in Outcomes :
            IF ~ok THEN bc' = [bc EXCEPT ![b] = NextRecipient(CountFailed(s, "error"))]
            ELSE IF found = {}
            THEN bc' = [bc EXCEPT ![b] =
                          NextRecipient(CountFailed(s, "unregistered"))]
            ELSE \E d \in found :
                   bc' = [bc EXCEPT ![b] = [s EXCEPT !.pc = "insert", !.device = d]]
    /\ UNCHANGED <<devices, user_alerts, notifications, gateway, valid_codes,
                   up, dl, rg>>

\* INSERT INTO user_alerts returns or throws; then the message is built
AlertInsert(b, Outcomes) ==
    /\ bc[b].pc = "insert"
    /\ LET s == bc[b]
           user == s.req.users[s.i]
       IN \E ok \in Outcomes :
            IF ok
            THEN /\ user_alerts' = Append(user_alerts, UserAlertRow(s, user))
                 /\ bc' = [bc EXCEPT ![b] = NextRecipient(CountSuccessful(s, user))]
            ELSE /\ user_alerts' = user_alerts
                 /\ bc' = [bc EXCEPT ![b] = NextRecipient(CountFailed(s, "error"))]
    /\ UNCHANGED <<devices, notifications, gateway, valid_codes, up, dl, rg>>

\* after a chunk was sent: the next chunk, or the INSERT INTO notifications
NextChunk(s) ==
    IF s.k < Len(s.chunks) THEN [s EXCEPT !.k = @ + 1]
    ELSE [s EXCEPT !.pc = "history"]

\* a chunk's send threw: the catch is outside the for loop over the chunks
ChunkError(s) == [s EXCEPT !.pc = "history"]

\* expo.sendPushNotificationsAsync(chunk) returns or throws
AlertDispatch(b, Outcomes) ==
    /\ bc[b].pc = "dispatch"
    /\ LET s == bc[b] IN
       \E ok \in Outcomes :
            IF ok
            THEN /\ gateway' = Append(gateway, s.chunks[s.k])
                 /\ bc' = [bc EXCEPT ![b] = NextChunk(s)]
            ELSE /\ gateway' = gateway
                 /\ bc' = [bc EXCEPT ![b] = ChunkError(s)]
    /\ UNCHANGED <<devices, user_alerts, notifications, valid_codes, up, dl, rg>>

AlertResult(s) ==
    [status |-> 200, success |-> TRUE, alert_id |-> s.alert_id,
     successful |-> s.successful, failed |-> s.failed,
     total |-> Len(s.req.users)]

InternalServerError ==
    [status |-> 500, success |-> FALSE, error |-> "Internal server error"]

\* HistoryError with the exception swallowed and the result still returned
HistoryErrorSwallowed(s) == [s EXCEPT !.pc = "done", !.res = AlertResult(s)]

\* the INSERT INTO notifications threw: the handler's outer catch
HistoryError(s) == [s EXCEPT !.pc = "done", !.res = InternalServerError]

\* INSERT INTO notifications returns or throws (alert_id is UNIQUE)
AlertHistory(b, Outcomes) ==
    /\ bc[b].pc = "history"
    /\ LET s == bc[b] IN
       \E ok \in Outcomes :
            IF ok /\ \A j \in 1..Len(notifications) :
                         notifications[j].alert_id # s.alert_id
            THEN /\ notifications' = Append(notifications, NotificationRow(s))
                 /\ bc' = [bc EXCEPT ![b] =
                             [s EXCEPT !.pc = "done", !.res = AlertResult(s)]]
            ELSE /\ notifications' = notifications
                 /\ bc' = [bc EXCEPT ![b] = HistoryError(s)]
    /\ UNCHANGED <<devices, user_alerts, gateway, valid_codes, up, dl, rg>>

(***************************************************************************)
(* PUT /api/alerts/:alert_id and DELETE /api/alerts/:alert_id.             *)
(***************************************************************************)
IdleMutation ==
    [pc |-> "idle", alert_id |-> "", body |-> << >>, finalStatusColor |-> "",
     attempted |-> << >>, res |-> NoResponse]

\* alert ids a client can have learnt: from a push message's data, from
\* GET /api/user/:code/alerts or from GET /api/notifications
KnownAlertIds ==
    {user_alerts[j].alert_id : j \in 1..Len(user_alerts)}
    \cup {notifications[j].alert_id : j \in 1..Len(notifications)}
    \cup {gateway[j][1].alert_id : j \in 1..Len(gateway)}

ErrorResponse == [status |-> 500, success |-> FALSE]

\* SetFields that also writes is_deleted = 0
SetFieldsUndelete(row, s) ==
    [row EXCEPT !.title = Field(s.body, "title"),
                !.status = Field(s.body, "status"),
                !.status_color = s.finalStatusColor,
                !.alert_level = Field(s.body, "alert_level"),
                !.details = Field(s.body, "details"),
                !.is_deleted = 0]

\* SET title = @title, status = @status, status_color = @status_color,
\*     alert_level = @alert_level, details = @details, updated_at = GETDATE()
SetFields(row, s) ==
    [row EXCEPT !.title = Field(s.body, "title"),
                !.status = Field(s.body, "status"),
                !.status_color = s.finalStatusColor,
                !.alert_level = Field(s.body, "alert_level"),
                !.details = Field(s.body, "details")]

\* UPDATE <table> SET ... WHERE alert_id = @alert_id
UpdateWhere(table, s) ==
    [j \in 1..Len(table) |->
        IF table[j].alert_id = s.alert_id THEN SetFields(table[j], s)
        ELSE table[j]]

UpdateStart(u) ==
    /\ up[u].pc = "idle"
    /\ \E id \in KnownAlertIds \cup {"no-such-alert"}, body \in UpdateBodies :
         up' = [up EXCEPT ![u] =
                  [@ EXCEPT !.pc = "user_alerts", !.alert_id = id, !.body = body,
                            !.finalStatusColor =
                                finalStatusColor(Field(body, "status_color"),
                                                 Field(body, "status")),
                            !.attempted = <<"user_alerts">>]]
    /\ UNCHANGED <<devices, user_alerts, notifications, gateway, valid_codes,
                   bc, dl, rg>>

\* the first write returned: the second write is sent
SecondWrite(s) ==
    [s EXCEPT !.pc = "notifications", !.attempted = Append(@, "notifications")]

\* a write threw: catch (error), res.status(500)
MutationError(s) == [s EXCEPT !.pc = "done", !.res = ErrorResponse]

MutationDone(s, message) ==
    [s EXCEPT !.pc = "done",
              !.res = [status |-> 200, success |-> TRUE, message |-> message]]

\* UPDATE user_alerts returns or throws
UpdateUserAlerts(u, Outcomes) ==
    /\ up[u].pc = "user_alerts"
    /\ \E ok \in Outcomes :
         IF ok
         THEN /\ user_alerts' = UpdateWhere(user_alerts, up[u])
              /\ up' = [up EXCEPT ![u] = SecondWrite(@)]
         ELSE /\ user_alerts' = user_alerts
              /\ up' = [up EXCEPT ![u] = MutationError(@)]
    /\ UNCHANGED <<devices, notifications, gateway, valid_codes, bc, dl, rg>>

\* UPDATE notifications returns or throws
UpdateNotifications(u, Outcomes) ==
    /\ up[u].pc = "notifications"
    /\ \E ok \in Outcomes :
         IF ok
         THEN /\ notifications' = UpdateWhere(notifications, up[u])
              /\ up' = [up EXCEPT ![u] =
                          MutationDone(@, "Alert updated successfully")]
         ELSE /\ notifications' = notifications
              /\ up' = [up EXCEPT ![u] = MutationError(@)]
    /\ UNCHANGED <<devices, user_alerts, gateway, valid_codes, bc, dl, rg>>

\* DeleteWhere with SET is_deleted = is_deleted + 1
DeleteWhereCount(table, id) ==
    [j \in 1..Len(table) |->
        IF table[j].alert_id = id THEN [table[j] EXCEPT !.is_deleted = @ + 1]
        ELSE table[j]]

\* UPDATE <table> SET is_deleted = 1 WHERE alert_id = @alert_id
DeleteWhere(table, id) ==
    [j \in 1..Len(table) |->
        IF table[j].alert_id = id THEN [table[j] EXCEPT !.is_deleted = 1]
        ELSE table[j]]

DeleteStart(d) ==
    /\ dl[d].pc = "idle"
    /\ \E id \in KnownAlertIds \cup {"no-such-alert"} :
         dl' = [dl EXCEPT ![d] =
                  [@ EXCEPT !.pc = "user_alerts", !.alert_id = id,
                            !.attempted = <<"user_alerts">>]]
    /\ UNCHANGED <<devices, user_alerts, notifications, gateway, valid_codes,
                   bc, up, rg>>

DeleteUserAlerts(d, Outcomes) ==
    /\ dl[d].pc = "user_alerts"
    /\ \E ok \in Outcomes :
         IF ok
         THEN /\ user_alerts' = DeleteWhere(user_alerts, dl[d].alert_id)
              /\ dl' = [dl EXCEPT ![d] = SecondWrite(@)]
         ELSE /\ user_alerts' = user_alerts
              /\ dl' = [dl EXCEPT ![d] = MutationError(@)]
    /\ UNCHANGED <<devices, notifications, gateway, valid_codes, bc, up, rg>>

DeleteNotifications(d, Outcomes) ==
    /\ dl[d].pc = "notifications"
    /\ \E ok \in Outcomes :
         IF ok
         THEN /\ notifications' = DeleteWhere(notifications, dl[d].alert_id)
              /\ dl' = [dl EXCEPT ![d] =
                          MutationDone(@, "Alert deleted successfully")]
         ELSE /\ notifications' = notifications
              /\ dl' = [dl EXCEPT ![d] = MutationError(@)]
    /\ UNCHANGED <<devices, user_alerts, gateway, valid_codes, bc, up, rg>>

(***************************************************************************)
(* POST /api/register.                                                     *)
(***************************************************************************)
IdleRegister ==
    [pc |-> "idle", upperCode |-> "", pushToken |-> "", registrationId |-> "",
     res |-> NoResponse]

BadRequest(s, error) ==
    [s EXCEPT !.pc = "done",
              !.res = [status |-> 400, success |-> FALSE, error |-> error]]

RegisterError(s) == [s EXCEPT !.pc = "done", !.res = InternalServerError]

RegisterStart(r) ==
    /\ rg[r].pc = "idle"
    /\ \E body \in RegisterBodies :
         rg' = [rg EXCEPT ![r] =
                  IF Field(body, "code") = "" \/ Field(body, "pushToken") = ""
                  THEN BadRequest(@, "code and pushToken are required")
                  ELSE [@ EXCEPT !.pc = "valid_codes",
                                 !.upperCode = toUpperCase(trim(body.code)),
                                 !.pushToken = body.pushToken]]
    /\ UNCHANGED <<devices, user_alerts, notifications, gateway, valid_codes,
                   bc, up, dl>>

\* SELECT * FROM valid_codes returns or throws; then the token's format
RegisterValidCode(r, Outcomes) ==
    /\ rg[r].pc = "valid_codes"
    /\ LET s == rg[r] IN
       \E ok \in Outcomes :
         rg' = [rg EXCEPT ![r] =
                  IF ~ok THEN RegisterError(s)
                  ELSE IF s.upperCode \notin valid_codes
                  THEN BadRequest(s, "Invalid code. Contact administrator.")
                  ELSE IF ~isValidPushToken(s.pushToken)
                          /\ ~startsWith(s.pushToken, "simulator_token_")
                  THEN BadRequest(s, "Invalid push token format")
                  ELSE [s EXCEPT !.pc = "check",
                                 !.registrationId = uuidv4(r)]]
    /\ UNCHANGED <<devices, user_alerts, notifications, gateway, valid_codes,
                   bc, up, dl>>

\* SELECT code FROM devices returns or throws
RegisterCheck(r, Outcomes) ==
    /\ rg[r].pc = "check"
    /\ LET s == rg[r] IN
       \E ok \in Outcomes :
         rg' = [rg EXCEPT ![r] =
                  IF ~ok THEN RegisterError(s)
                  ELSE IF \E d \in devices : d.code = s.upperCode
                  THEN [s EXCEPT !.pc = "update"]
                  ELSE [s EXCEPT !.pc = "insert"]]
    /\ UNCHANGED <<devices, user_alerts, notifications, gateway, valid_codes,
                   bc, up, dl>>

DeviceRow(s) ==
    [code |-> s.upperCode, pushToken |-> s.pushToken,
     registrationId |-> s.registrationId]

Registered(s) ==
    [s EXCEPT !.pc = "done",
              !.res = [status |-> 200, success |-> TRUE,
                       registrationId |-> s.registrationId]]

\* UpdateDevices that adds the row and keeps the old one
UpdateDevicesAppend(table, row) == table \cup {row}

\* UPDATE devices SET pushToken, registrationId WHERE code = @code
UpdateDevices(table, row) ==
    {IF d.code = row.code THEN row ELSE d : d \in table}

\* UPDATE devices, or INSERT INTO devices (code is the PRIMARY KEY)
RegisterWrite(r, Outcomes) ==
    /\ rg[r].pc \in {"update", "insert"}
    /\ LET s == rg[r] IN
       \E ok \in Outcomes :
         IF ok /\ s.pc = "update"
         THEN /\ devices' = UpdateDevices(devices, DeviceRow(s))
              /\ rg' = [rg EXCEPT ![r] = Registered(s)]
         ELSE IF ok /\ \A d \in devices : d.code # s.upperCode
         THEN /\ devices' = devices \cup {DeviceRow(s)}
              /\ rg' = [rg EXCEPT ![r] = Registered(s)]
         ELSE /\ devices' = devices
              /\ rg' = [rg EXCEPT ![r] = RegisterError(s)]
    /\ UNCHANGED <<user_alerts, notifications, gateway, valid_codes, bc, up, dl>>

(***************************************************************************)
(* GET /api/user/:code/alerts and GET /api/notifications: what the query   *)
(* returns when it runs in the current state.                              *)
(***************************************************************************)
\* the TOP 50 of line 447 and the default limit of line 460
TOP_50 == 50

\* @a = @b on NVARCHAR columns: the schema names no collation, so the
\* comparison is case-insensitive (ci) or not as the database is set up
SqlEquals(a, b, ci) == IF ci THEN toUpperCase(a) = toUpperCase(b) ELSE a = b

\* SELECT TOP (n) ... ORDER BY sent_at DESC: the rows of a table at the
\* places in matching, among 1..j, newest first
RECURSIVE SelectDesc(_, _, _, _)
SelectDesc(table, j, n, matching) ==
    IF j = 0 \/ n <= 0 THEN << >>
    ELSE IF j \in matching
         THEN << table[j] >> \o SelectDesc(table, j - 1, n - 1, matching)
         ELSE SelectDesc(table, j - 1, n, matching)

\* SELECT TOP 50 * FROM user_alerts WHERE user_code = @code AND
\* is_deleted = 0 ORDER BY sent_at DESC, with @code = code.toUpperCase()
listForUser(code, ci) ==
    SelectDesc(user_alerts, Len(user_alerts), TOP_50,
               {j \in 1..Len(user_alerts) :
                   /\ SqlEquals(user_alerts[j].user_code, toUpperCase(code), ci)
                   /\ user_alerts[j].is_deleted = 0})

\* SELECT TOP (@limit) * FROM notifications WHERE is_deleted = 0 ORDER BY
\* sent_at DESC, with @limit = parseInt(req.query.limit) || 50
listHistory(limit) ==
    SelectDesc(notifications, Len(notifications),
               IF limit = 0 THEN TOP_50 ELSE limit,
               {j \in 1..Len(notifications) : notifications[j].is_deleted = 0})

\* the codes and limits the clients ask with (0: no limit given)
QueryCodes == {"ABC123", "abc123", "XYZ789"}
QueryLimits == {0, 1, 50}

(***************************************************************************)
(* The system.                                                             *)
(***************************************************************************)
\* directories left by earlier registrations
InitialDirectories ==
    { {},
      {[code |-> "ABC123", pushToken |-> "ExponentPushToken[old]",
        registrationId |-> "r0"]},
      {[code |-> "ABC123", pushToken |-> "ExponentPushToken[old]",
        registrationId |-> "r0"],
       [code |-> "XYZ789", pushToken |-> "simulator_token_9",
        registrationId |-> "r00"]} }

InitWith(directories) ==
    /\ devices \in directories
    /\ user_alerts = << >>
    /\ notifications = << >>
    /\ gateway = << >>
    /\ valid_codes = {"ABC123", "XYZ789"}
    /\ bc = [b \in AlertSlots |-> IdleAlert]
    /\ up = [u \in UpdateSlots |-> IdleMutation]
    /\ dl = [d \in DeleteSlots |-> IdleMutation]
    /\ rg = [r \in RegisterSlots |-> IdleRegister]

Init == InitWith(InitialDirectories)

\* a database or gateway call returns (TRUE) or throws (FALSE)
Faulty == {TRUE, FALSE}
Reliable == {TRUE}

Alert(b, Outcomes, Bodies) ==
    \/ AlertStart(b, Bodies)
    \/ AlertLookup(b, Outcomes)
    \/ AlertInsert(b, Outcomes)
    \/ AlertDispatch(b, Outcomes)
    \/ AlertHistory(b, Outcomes)

Update(u, Outcomes) ==
    \/ UpdateStart(u)
    \/ UpdateUserAlerts(u, Outcomes)
    \/ UpdateNotifications(u, Outcomes)

Delete(d, Outcomes) ==
    \/ DeleteStart(d)
    \/ DeleteUserAlerts(d, Outcomes)
    \/ DeleteNotifications(d, Outcomes)

Register(r, Outcomes) ==
    \/ RegisterStart(r)
    \/ RegisterValidCode(r, Outcomes)
    \/ RegisterCheck(r, Outcomes)
    \/ RegisterWrite(r, Outcomes)

\* one broadcast beside a registration, with calls that may throw
Next ==
    \/ Alert("b1", Faulty, AlertBodies)
    \/ Register("r1", Faulty)

Spec == Init /\ [][Next]_vars

\* the concurrent runs start with ABC123 registered and XYZ789 not, and
\* their broadcasts go to one registered recipient, or to a registered and
\* an unregistered one
ConcurrentDirectories ==
    {D \in InitialDirectories : Cardinality(D) = 1}

ConcurrentBodies ==
    { AlertBody(<< [user_id |-> "ABC123", teams_affected |-> 2] >>),
      AlertBody(<< [user_id |-> "abc123"],
                   [user_id |-> "XYZ789", teams_affected |-> 0] >>) }

InitConcurrent == InitWith(ConcurrentDirectories)

\* concurrent broadcasts, updates and soft deletes, with calls that may throw
NextConcurrent ==
    \/ \E b \in AlertSlots : Alert(b, Faulty, ConcurrentBodies)
    \/ \E u \in UpdateSlots : Update(u, Faulty)
    \/ Delete("d1", Faulty)

SpecConcurrent == InitConcurrent /\ [][NextConcurrent]_vars

\* the same handlers when every database and gateway call returns
NextReliable ==
    \/ \E b \in AlertSlots : Alert(b, Reliable, ConcurrentBodies)
    \/ \E u \in UpdateSlots : Update(u, Reliable)
    \/ Delete("d1", Reliable)

SpecReliable == InitConcurrent /\ [][NextReliable]_vars

\* one broadcast, an update and two soft deletes, with calls that may throw
NextSoftDelete ==
    \/ Alert("b1", Faulty, ConcurrentBodies)
    \/ \E u \in UpdateSlots : Update(u, Faulty)
    \/ \E d \in DeleteSlots : Delete(d, Faulty)

SpecSoftDelete == InitConcurrent /\ [][NextSoftDelete]_vars

\* concurrent registrations, with calls that may throw
NextRegister == \E r \in RegisterSlots : Register(r, Faulty)

SpecRegister == Init /\ [][NextRegister]_vars

\* concurrent registrations when every database call returns
NextRegisterReliable == \E r \in RegisterSlots : Register(r, Reliable)

SpecRegisterReliable == Init /\ [][NextRegisterReliable]_vars

\* one broadcast of a message body to registered recipients, no call throws
NextMessage == Alert("b1", Reliable, MessageBodies)

SpecMessage == InitConcurrent /\ [][NextMessage]_vars

(***************************************************************************)
(* Properties.                                                             *)
(***************************************************************************)
Returned(b) == bc[b].pc = "done" /\ bc[b].res.status = 200

\* the places of the rows of a table that carry an alert id
RowsOf(table, id) == {j \in 1..Len(table) : table[j].alert_id = id}

\* the places of a broadcast's recipient list with a given outcome
Places(b, outcome) ==
    {j \in 1..Len(bc[b].outcomes) : bc[b].outcomes[j] = outcome}

\* C1: a broadcast that returns a result reports successful + failed = total
\* = the number of recipients of the request, whatever the mix of registered
\* and unregistered recipients and of lookups and row writes that throw.
C1_CountsAddUp ==
    \A b \in AlertSlots :
        Returned(b) =>
            /\ bc[b].res.successful + bc[b].res.failed = bc[b].res.total
            /\ bc[b].res.total = Len(bc[b].req.users)

C1_Witness ==
    \E b \in AlertSlots :
        /\ Returned(b)
        /\ Places(b, "ok") # {}
        /\ Places(b, "error") # {}
        /\ Places(b, "unregistered") # {}

\* C2: a recipient whose upper-cased user code has no Device row when it is
\* looked up is counted in failed, gets no user_alerts row and no push
\* message, and the loop goes on to the next recipient.
C2_UnregisteredSkipped ==
    [][\A b \in AlertSlots :
        ( /\ bc[b].pc = "lookup"
          /\ bc'[b] # bc[b]
          /\ \A d \in devices :
                d.code # toUpperCase(bc[b].req.users[bc[b].i].user_id) )
        => /\ bc'[b].failed = bc[b].failed + 1
           /\ bc'[b].successful = bc[b].successful
           /\ bc'[b].messages = bc[b].messages
           /\ user_alerts' = user_alerts
           /\ gateway' = gateway
           /\ IF bc[b].i < Len(bc[b].req.users)
              THEN bc'[b].pc = "lookup" /\ bc'[b].i = bc[b].i + 1
              ELSE bc'[b].pc \in {"dispatch", "history"}]_vars

C2_Witness ==
    \E b \in AlertSlots :
        /\ Returned(b)
        /\ Len(bc[b].outcomes) >= 2
        /\ bc[b].outcomes[1] = "unregistered"
        /\ bc[b].outcomes[2] = "ok"
        /\ Cardinality(RowsOf(user_alerts, bc[b].alert_id)) = 1

\* C3: after a broadcast returns its result, exactly one notifications row
\* carries the returned alert id and its total_recipients is the returned
\* successful count, also when that is 0 and when a chunk's dispatch failed.
C3_OneHistoryRow ==
    \A b \in AlertSlots :
        Returned(b) =>
            /\ Cardinality(RowsOf(notifications, bc[b].res.alert_id)) = 1
            /\ \A j \in RowsOf(notifications, bc[b].res.alert_id) :
                  notifications[j].total_recipients = bc[b].res.successful

C3_Witness ==
    \E b1, b2 \in AlertSlots :
        /\ Returned(b1) /\ bc[b1].res.successful = 0
        /\ Returned(b2) /\ bc[b2].res.successful = 1 /\ bc[b2].res.failed = 1
        /\ gateway = << >>

\* C4 as stated: after a broadcast returns, every recipient counted as
\* successful has exactly one user_alerts row with the broadcast's alert id
\* and its user code.
C4_ExactlyOneRow ==
    \A b \in AlertSlots :
        Returned(b) =>
            \A j \in Places(b, "ok") :
                Cardinality({r \in RowsOf(user_alerts, bc[b].alert_id) :
                    user_alerts[r].user_code = bc[b].req.users[j].user_id}) = 1

\* C4 as amended: after a broadcast returns, a user code has as many
\* user_alerts rows with the broadcast's alert id as the recipient list has
\* successful entries with that user code (one row for each of them).
C4_OneRowPerSuccessfulEntry ==
    \A b \in AlertSlots :
        Returned(b) =>
            \A j \in 1..Len(bc[b].req.users) :
                Cardinality({r \in RowsOf(user_alerts, bc[b].alert_id) :
                    user_alerts[r].user_code = bc[b].req.users[j].user_id})
                = Cardinality({k \in Places(b, "ok") :
                    bc[b].req.users[k].user_id = bc[b].req.users[j].user_id})

C4_Witness ==
    \E b \in AlertSlots :
        /\ Returned(b)
        /\ {1, 2} \subseteq Places(b, "ok")
        /\ bc[b].req.users[1].user_id = bc[b].req.users[2].user_id

\* C5 as stated: in every reachable state every user_alerts row's alert id
\* has exactly one notifications row.
C5_AlwaysOneHistoryRow ==
    \A j \in 1..Len(user_alerts) :
        Cardinality(RowsOf(notifications, user_alerts[j].alert_id)) = 1

\* C5 as amended: in every reachable state every user_alerts row's alert id
\* has at most one notifications row, and exactly one once the broadcast
\* that wrote the row has returned its result.
C5_OneHistoryRowOnceReturned ==
    \A j \in 1..Len(user_alerts) :
        /\ Cardinality(RowsOf(notifications, user_alerts[j].alert_id)) <= 1
        /\ \A b \in AlertSlots :
              (Returned(b) /\ bc[b].alert_id = user_alerts[j].alert_id)
              => Cardinality(RowsOf(notifications, user_alerts[j].alert_id)) = 1

C5_Witness ==
    \E b1, b2 \in AlertSlots :
        /\ Returned(b1)
        /\ RowsOf(user_alerts, bc[b1].alert_id) # {}
        /\ bc[b2].pc = "done" /\ bc[b2].res.status = 500
        /\ RowsOf(user_alerts, bc[b2].alert_id) # {}
        /\ RowsOf(notifications, bc[b2].alert_id) = {}

\* the request of C6: title, status or alertLevel empty or missing, or the
\* recipient list missing or empty
EmptyOrMissing(body, f) == f \notin DOMAIN body \/ body[f] = ""

InvalidBroadcast(body) ==
    \/ EmptyOrMissing(body, "title")
    \/ EmptyOrMissing(body, "status")
    \/ EmptyOrMissing(body, "alert_level")
    \/ "users" \notin DOMAIN body
    \/ body.users = << >>

\* C6: a broadcast request with an empty or missing title, status or
\* alertLevel, or a missing or empty recipient list, is answered with the
\* validation error in the step that takes it, and that step changes no
\* table and sends nothing to the gateway; the handler takes no other step.
C6_InvalidRejected ==
    [][\A b \in AlertSlots :
        (bc[b].pc = "idle" /\ bc'[b].pc # "idle" /\ InvalidBroadcast(bc'[b].req))
        => /\ bc'[b].pc = "done"
           /\ bc'[b].res.status = 400
           /\ UNCHANGED <<devices, user_alerts, notifications, gateway>>]_vars

C6_Witness ==
    \E b \in AlertSlots :
        /\ bc[b].pc = "done"
        /\ bc[b].res.status = 400
        /\ "status" \in DOMAIN bc[b].req /\ bc[b].req.status = ""

\* C7 as stated: once its preconditions pass, a broadcast ends with the
\* summary {alertId, successful, failed, total} even if a row write, the
\* history row write or a gateway call fails.
C7_AlwaysReturnsSummary ==
    \A b \in AlertSlots :
        (bc[b].pc = "done" /\ ~InvalidBroadcast(bc[b].req))
        => /\ bc[b].res.status = 200
           /\ DOMAIN bc[b].res =
                {"status", "success", "alert_id", "successful", "failed", "total"}

\* C8 as stated: when the batch has several chunks and the dispatch of one
\* fails, every later chunk is still dispatched (the loop over the chunks
\* reaches the last one) and successful and failed stay as the recipient
\* loop left them.
C8_LaterChunksDispatched ==
    \A b \in AlertSlots :
        (bc[b].pc \in {"history", "done"} /\ Len(bc[b].chunks) > 1)
        => /\ bc[b].k = Len(bc[b].chunks)
           /\ bc[b].successful = Cardinality(Places(b, "ok"))
           /\ bc[b].failed = Len(bc[b].outcomes) - Cardinality(Places(b, "ok"))

\* C9 as stated: update always attempts both writes, also when one of them
\* fails, and answers with an error if either failed.
C9_BothWritesAttempted ==
    \A u \in UpdateSlots :
        up[u].pc = "done" =>
            /\ up[u].attempted = <<"user_alerts", "notifications">>
            /\ up[u].res.status \in {200, 500}

Quiescent ==
    /\ \A b \in AlertSlots : bc[b].pc \in {"idle", "done"}
    /\ \A u \in UpdateSlots : up[u].pc \in {"idle", "done"}
    /\ \A d \in DeleteSlots : dl[d].pc \in {"idle", "done"}

SameAlert(n, r) ==
    /\ n.title = r.title
    /\ n.status = r.status
    /\ n.status_color = r.status_color
    /\ n.alert_level = r.alert_level
    /\ n.details = r.details
    /\ n.is_deleted = r.is_deleted

\* C10 as stated: when every write succeeds, once no operation is in flight
\* the notifications row of an alert id and the user_alerts rows with that
\* alert id agree on title, status, status color, alert level, details and
\* deleted flag.
C10_StoresAgreeWhenQuiescent ==
    Quiescent =>
        \A j \in 1..Len(notifications), r \in 1..Len(user_alerts) :
            notifications[j].alert_id = user_alerts[r].alert_id
            => SameAlert(notifications[j], user_alerts[r])

(***************************************************************************)
(* Properties of the reads, the soft delete and the update.                *)
(***************************************************************************)
Deleted(d) == dl[d].pc = "done" /\ dl[d].res.status = 200

\* the rows a sequence holds
Range(seq) == {seq[j] : j \in 1..Len(seq)}

\* every row some read query returns in the current state
ReadRows ==
    UNION ({Range(listForUser(code, ci)) : code \in QueryCodes, ci \in BOOLEAN}
           \cup {Range(listHistory(limit)) : limit \in QueryLimits})

\* C11 as stated: after softDelete(alertId) has completed, no read returns a
\* row with that alert id, the rows with that alert id are still in both
\* tables with the deleted flag set, and no read ever returns a row whose
\* deleted flag is set.
C11_DeletedNeverRead ==
    /\ \A d \in DeleteSlots :
          Deleted(d) =>
              /\ \A row \in ReadRows : row.alert_id # dl[d].alert_id
              /\ \A j \in RowsOf(user_alerts, dl[d].alert_id) :
                    user_alerts[j].is_deleted = 1
              /\ \A j \in RowsOf(notifications, dl[d].alert_id) :
                    notifications[j].is_deleted = 1
    /\ \A row \in ReadRows : row.is_deleted = 0

\* the state of a table after one softDelete of an alert id: every row with
\* that alert id has the deleted flag set
SoftDeleted(table, id) == \A j \in RowsOf(table, id) : table[j].is_deleted = 1

Updated(u) == up[u].pc = "done" /\ up[u].res.status = 200

\* a row carries the fields X of an update; when X names no status color,
\* the color is the one resolved from X's status
CarriesFields(row, X) ==
    /\ row.title = X.title
    /\ row.status = X.status
    /\ row.alert_level = X.alert_level
    /\ row.details = X.details
    /\ row.status_color =
          IF "status_color" \in DOMAIN X THEN X.status_color
          ELSE finalStatusColor("", X.status)

\* C13 as stated: after update(alertId, X) has returned success, the
\* notifications row and every user_alerts row with that alert id carry
\* title, status, status color, alert level and details equal to X.
C13_RoundTrip ==
    \A u \in UpdateSlots :
        Updated(u) =>
            /\ \A j \in RowsOf(user_alerts, up[u].alert_id) :
                  CarriesFields(user_alerts[j], up[u].body)
            /\ \A j \in RowsOf(notifications, up[u].alert_id) :
                  CarriesFields(notifications[j], up[u].body)

(***************************************************************************)
(* Properties of the device directory.                                     *)
(***************************************************************************)
Normalized(code) == toUpperCase(trim(code))

\* C14: the directory never holds two Devices with the same normalized
\* (trimmed, upper-cased) code; and a registration's write for a code that
\* already has a Device adds no row, and when the registration succeeds the
\* one row of that code holds the new push destination and registration id.
C14_OneDevicePerCode ==
    /\ [](\A d1, d2 \in devices :
            Normalized(d1.code) = Normalized(d2.code) => d1 = d2)
    /\ [][\A r \in RegisterSlots :
            ( /\ rg[r].pc \in {"update", "insert"}
              /\ rg'[r].pc = "done"
              /\ \E d \in devices : d.code = rg[r].upperCode )
            => /\ Cardinality(devices') = Cardinality(devices)
               /\ {d.code : d \in devices'} = {d.code : d \in devices}
               /\ rg'[r].res.status = 200
                  => \A d \in devices' :
                        d.code = rg[r].upperCode
                        => /\ d.pushToken = rg[r].pushToken
                           /\ d.registrationId = rg'[r].res.registrationId]_vars

C14_Witness ==
    \E r1, r2 \in RegisterSlots :
        /\ r1 # r2
        /\ rg[r1].pc = "done" /\ rg[r1].res.status = 200
        /\ rg[r2].pc = "done" /\ rg[r2].res.status = 200
        /\ rg[r1].upperCode = rg[r2].upperCode
        /\ rg[r1].pushToken # rg[r2].pushToken
        /\ Cardinality({d \in devices : d.code = rg[r1].upperCode}) = 1

\* C15 as stated: a registration with a code of the Code Registry and a
\* valid push destination always succeeds and returns a fresh registration
\* id, also when the code is registered already and when two registrations
\* of the same code run concurrently.
C15_RegistrationSucceeds ==
    \A r \in RegisterSlots :
        ( /\ rg[r].pc = "done"
          /\ rg[r].upperCode \in valid_codes
          /\ \/ startsWith(rg[r].pushToken, "ExponentPushToken[")
             \/ startsWith(rg[r].pushToken, "simulator_token_") )
        => /\ rg[r].res.status = 200
           /\ \A q \in RegisterSlots \ {r} :
                 rg[q].pc = "done" /\ rg[q].res.status = 200
                 => rg[q].res.registrationId # rg[r].res.registrationId
           /\ \A row \in UNION InitialDirectories :
                 row.registrationId # rg[r].res.registrationId

(***************************************************************************)
(* Properties of one broadcast's steps.                                    *)
(***************************************************************************)
\* the broadcast is in its loop over the recipients
InRecipientLoop(b) == bc[b].pc \in {"lookup", "insert"}

\* the push messages the gateway was handed for an alert id
Dispatched(id) ==
    {<<c, m>> \in (1..Len(gateway)) \X (1..ChunkSize) :
        m <= Len(gateway[c]) /\ gateway[c][m].alert_id = id}

\* C16 as stated: the recipients are processed one at a time in input order;
\* no push message of the broadcast reaches the gateway while a recipient is
\* still to be processed; and the notifications row of the broadcast is
\* written only after the dispatch of every chunk has been attempted.
C16_StepsInOrder ==
    \A b \in AlertSlots :
        /\ InRecipientLoop(b) =>
              /\ Len(bc[b].outcomes) = bc[b].i - 1
              /\ bc[b].i <= Len(bc[b].req.users)
              /\ Dispatched(bc[b].alert_id) = {}
              /\ RowsOf(notifications, bc[b].alert_id) = {}
        /\ bc[b].pc = "dispatch" =>
              /\ Len(bc[b].outcomes) = Len(bc[b].req.users)
              /\ RowsOf(notifications, bc[b].alert_id) = {}
        /\ (bc[b].pc # "idle" /\ RowsOf(notifications, bc[b].alert_id) # {})
           => bc[b].k = Len(bc[b].chunks)

\* the places of a broadcast's recipient list that name a user id and whose
\* row was written
OkPlacesOf(b, id) == {j \in Places(b, "ok") : bc[b].req.users[j].user_id = id}

\* C17: a recipient that appears twice in the recipient list is processed
\* twice, with no deduplication: a later entry of a recipient that was found
\* registered is never skipped as unregistered; the broadcast has written one
\* user_alerts row with its alert id and that user code per entry that
\* succeeded, so two for a registered recipient listed twice; and it keeps one
\* push message and counts one toward successful per such entry.
C17_NoDeduplication ==
    \A b \in AlertSlots :
        bc[b].pc \notin {"idle"} /\ bc[b].res.status # 400 =>
            /\ \A j1, j2 \in 1..Len(bc[b].outcomes) :
                  ( /\ j1 < j2
                    /\ bc[b].req.users[j1].user_id = bc[b].req.users[j2].user_id
                    /\ bc[b].outcomes[j1] = "ok" )
                  => bc[b].outcomes[j2] # "unregistered"
            /\ \A j \in 1..Len(bc[b].outcomes) :
                  LET id == bc[b].req.users[j].user_id IN
                  Cardinality({r \in RowsOf(user_alerts, bc[b].alert_id) :
                                  user_alerts[r].user_code = id})
                      = Cardinality(OkPlacesOf(b, id))
            /\ Len(bc[b].messages) = Cardinality(Places(b, "ok"))
            /\ bc[b].successful = Cardinality(Places(b, "ok"))

C17_Witness ==
    \E b \in AlertSlots :
        /\ Returned(b)
        /\ Len(bc[b].req.users) = 2
        /\ bc[b].req.users[1].user_id = bc[b].req.users[2].user_id
        /\ bc[b].outcomes = <<"ok", "ok">>
        /\ bc[b].res.successful = 2
        /\ Len(bc[b].messages) = 2
        /\ Cardinality({r \in RowsOf(user_alerts, bc[b].alert_id) :
                           user_alerts[r].user_code
                               = bc[b].req.users[1].user_id}) = 2

(***************************************************************************)
(* Properties of the push message.                                         *)
(***************************************************************************)
\* the level's emoji of the table low, medium, high, monster, else the
\* fallback, whatever the letter case of the level
LevelEmoji(level) ==
    LET L == toUpperCase(level) IN
    IF L = "LOW" THEN "(i)"
    ELSE IF L = "MEDIUM" THEN "(!)"
    ELSE IF L = "HIGH" THEN "(fire)"
    ELSE IF L = "MONSTER" THEN "(siren)"
    ELSE "(megaphone)"

ExpectedTitle(level, title) ==
    IF toUpperCase(level) = "MONSTER"
    THEN LevelEmoji(level) \o " MONSTER ALERT - " \o title
    ELSE LevelEmoji(level) \o " " \o title

FirstHundred(details) ==
    IF details = Details101 THEN Hundred ELSE details

ExpectedBody(status, user, details) ==
    LET teams == IF "teams_affected" \in DOMAIN user
                 THEN user.teams_affected ELSE 0
        withTeams == IF teams > 0
                     THEN status \o " [" \o ToString(teams) \o " teams]"
                     ELSE status
    IN IF details = "" THEN withTeams
       ELSE withTeams \o " - " \o FirstHundred(details)

\* the place in the recipient list of the n-th recipient that succeeded
OkPlace(b, n) ==
    CHOOSE j \in Places(b, "ok") :
        Cardinality({i \in Places(b, "ok") : i <= j}) = n

\* the message kept for the n-th successful recipient is the one stated
MessageAsStated(b, n) ==
    LET user == bc[b].req.users[OkPlace(b, n)]
        msg == bc[b].messages[n]
    IN /\ msg.title = ExpectedTitle(Field(bc[b].req, "alert_level"),
                                    Field(bc[b].req, "title"))
       /\ msg.body = ExpectedBody(Field(bc[b].req, "status"), user,
                                  Field(bc[b].req, "details"))
       /\ \E d \in devices : /\ d.code = toUpperCase(user.user_id)
                             /\ msg.to = d.pushToken

\* C18 as stated: for each successful recipient the message's title is the
\* level's emoji, a space, 'MONSTER ALERT - ' exactly when the level is
\* 'monster' in any letter case, then the title; its body is the status,
\* ' [<teamsAffected> teams]' exactly when teamsAffected > 0, and ' - ' with
\* the first 100 characters of the details exactly when the details are not
\* empty; its destination is the recipient's stored push destination.
C18_MessageBuilt ==
    \A b \in AlertSlots :
        \A n \in 1..Len(bc[b].messages) : MessageAsStated(b, n)

(***************************************************************************)
(* Properties of the deleted flag and of the frame of update.              *)
(***************************************************************************)
\* every row that has the deleted flag set is still there, with its alert
\* id, and has the flag set
StaysDeleted(table, table2) ==
    \A j \in 1..Len(table) :
        table[j].is_deleted = 1
        => /\ j <= Len(table2)
           /\ table2[j].alert_id = table[j].alert_id
           /\ table2[j].is_deleted = 1

\* a step of update(u) that sends a write and gets its answer
UpdateStep(u) ==
    /\ up[u].pc \in {"user_alerts", "notifications"}
    /\ up'[u].pc # up[u].pc

\* what a write of update(id) leaves alone in user_alerts
UserAlertsFrame(id) ==
    /\ Len(user_alerts') = Len(user_alerts)
    /\ \A j \in 1..Len(user_alerts) :
          /\ user_alerts[j].alert_id # id => user_alerts'[j] = user_alerts[j]
          /\ user_alerts'[j].alert_id = user_alerts[j].alert_id
          /\ user_alerts'[j].is_deleted = user_alerts[j].is_deleted
          /\ user_alerts'[j].user_code = user_alerts[j].user_code
          /\ user_alerts'[j].teams_affected = user_alerts[j].teams_affected

\* what a write of update(id) leaves alone in notifications
NotificationsFrame(id) ==
    /\ Len(notifications') = Len(notifications)
    /\ \A j \in 1..Len(notifications) :
          /\ notifications[j].alert_id # id
             => notifications'[j] = notifications[j]
          /\ notifications'[j].alert_id = notifications[j].alert_id
          /\ notifications'[j].is_deleted = notifications[j].is_deleted
          /\ notifications'[j].total_recipients
                = notifications[j].total_recipients

\* C19: under broadcasts, updates and soft deletes in any interleaving, a row
\* with the deleted flag set keeps it for ever; a write of update(alertId)
\* changes no row with another alert id and leaves the deleted flag, the user
\* code, the teams-affected count and total_recipients of the rows with that
\* alert id (and the number of rows) as they were; and update of an alert id
\* that no row carries changes nothing and answers with success.
C19_DeletedStaysAndUpdateFrame ==
    [][/\ StaysDeleted(user_alerts, user_alerts')
       /\ StaysDeleted(notifications, notifications')
       /\ \A u \in UpdateSlots :
             UpdateStep(u) =>
                /\ UserAlertsFrame(up[u].alert_id)
                /\ NotificationsFrame(up[u].alert_id)
                /\ ( /\ RowsOf(user_alerts, up[u].alert_id) = {}
                     /\ RowsOf(notifications, up[u].alert_id) = {} )
                   => /\ user_alerts' = user_alerts
                      /\ notifications' = notifications
                      /\ up'[u].pc = "done" => up'[u].res.status = 200]_vars

C19_Witness ==
    \E u \in UpdateSlots, d \in DeleteSlots :
        /\ Updated(u) /\ Deleted(d)
        /\ up[u].alert_id = dl[d].alert_id
        /\ RowsOf(user_alerts, up[u].alert_id) # {}
        /\ RowsOf(notifications, up[u].alert_id) # {}
        /\ \A j \in RowsOf(user_alerts, up[u].alert_id) :
              /\ user_alerts[j].is_deleted = 1
              /\ user_alerts[j].title = up[u].body.title
        /\ \A j \in RowsOf(notifications, up[u].alert_id) :
              /\ notifications[j].is_deleted = 1
              /\ notifications[j].title = up[u].body.title

(***************************************************************************)
(* Properties of a recipient's own list.                                   *)
(***************************************************************************)
\* the entries of the recipient list that succeeded and resolved to a code
OkPlacesOfCode(b, code) ==
    {j \in Places(b, "ok") : toUpperCase(bc[b].req.users[j].user_id) = code}

\* C20 as stated: for every recipient counted successful, whatever the letter
\* case of the user code in the request, the row written for it carries the
\* upper-case code of the Device that was resolved for it, and listForUser of
\* that code returns the row (it is not soft-deleted and is among the 50 most
\* recent), whichever way the database compares text.
C20_RowRetrievable ==
    \A b \in AlertSlots :
        Returned(b) =>
            \A j \in Places(b, "ok") :
                LET code == toUpperCase(bc[b].req.users[j].user_id) IN
                /\ Cardinality({r \in RowsOf(user_alerts, bc[b].alert_id) :
                                   user_alerts[r].user_code = code})
                      = Cardinality(OkPlacesOfCode(b, code))
                /\ \A ci \in BOOLEAN :
                      \E k \in 1..Len(listForUser(code, ci)) :
                          listForUser(code, ci)[k].alert_id = bc[b].alert_id

(***************************************************************************)
(* Properties of the pending batch.                                        *)
(***************************************************************************)
\* the recipient loop of the broadcast has ended
LoopEnded(b) ==
    \/ bc[b].pc \in {"dispatch", "history"}
    \/ bc[b].pc = "done" /\ bc[b].res.status # 400

\* the broadcast puts a message into its batch in this step
MessageAdded(b) == Len(bc'[b].messages) > Len(bc[b].messages)

\* C21: when the recipient loop of a broadcast has ended, the batch holds as
\* many push messages as successful counts and user_alerts holds as many rows
\* with the broadcast's alert id; every message of the batch carries the
\* alert id and belongs to a recipient that has such a row; and a message
\* only enters the batch in the step whose INSERT INTO user_alerts wrote the
\* row of its recipient, never before the row is there.
C21_BatchMatchesRows ==
    /\ [](\A b \in AlertSlots :
            LoopEnded(b) =>
               /\ Len(bc[b].messages) = bc[b].successful
               /\ Cardinality(RowsOf(user_alerts, bc[b].alert_id))
                     = bc[b].successful
               /\ \A n \in 1..Len(bc[b].messages) :
                     /\ bc[b].messages[n].alert_id = bc[b].alert_id
                     /\ \E r \in RowsOf(user_alerts, bc[b].alert_id) :
                           user_alerts[r].user_code
                               = bc[b].req.users[OkPlace(b, n)].user_id)
    /\ [][\A b \in AlertSlots :
            MessageAdded(b) =>
               /\ bc[b].pc = "insert"
               /\ Len(bc'[b].messages) = Len(bc[b].messages) + 1
               /\ Len(user_alerts') = Len(user_alerts) + 1
               /\ user_alerts'[Len(user_alerts')].alert_id = bc[b].alert_id
               /\ user_alerts'[Len(user_alerts')].user_code
                     = bc[b].req.users[bc[b].i].user_id]_vars

C21_Witness ==
    \E b \in AlertSlots, d \in DeleteSlots :
        /\ bc[b].pc = "dispatch"
        /\ bc[b].outcomes = <<"ok", "unregistered">>
        /\ Len(bc[b].messages) = 1
        /\ bc[b].successful = 1
        /\ Cardinality(RowsOf(user_alerts, bc[b].alert_id)) = 1
        /\ dl[d].alert_id = bc[b].alert_id
        /\ dl[d].pc = "notifications"

====
